---- MODULE Spec2Model ----
(***************************************************************************)
(* The gRPC miner server (miner_server.py): the transaction table of       *)
(* MinerServicer, its lock, and the six RPC handlers.  A handler runs on   *)
(* a thread of the server's pool; all table access happens inside          *)
(* `with self.lock:`.  submitChallenge's critical section is modelled      *)
(* statement by statement, the read handlers as one step each (they hold   *)
(* the lock for a lookup and change nothing).                              *)
(***************************************************************************)
EXTENDS Integers, Sequences, FiniteSets, TLC

\* ---- bounds of the model ----
\* submissions that would be accepted are served only while
\* current_transaction_id < MaxTxId, so the table holds at most MaxTxId + 1 rounds
MaxTxId == 2
\* server threads serving requests (the pool of serve() has 10)
NumThreads == 2

\* mine_worker threads of one local_mine call (num_threads is 8 in the code)
num_threads == 3

\* ---- program constants ----
MinChallenge == 1
MaxChallenge == 20
\* winner value of a round not yet solved
NoWinner == -1
\* initial value of current_transaction_id before the first challenge
InitialTxId == -1

Threads == 1..NumThreads
\* lock value when no thread holds it
Free == 0

\* Python's None for the "solution" slot: an optional string is a sequence
\* of length 0 (None) or 1 (the string)
None == <<>>
Some(s) == <<s>>

\* clientID values a request can carry (any int32: the handler does not
\* validate it); 1000 and 1001 are ids the client program draws
ClientIDs == {-1, 0, 1000}

\* solution strings a request can carry
Candidates == {"", "a", "i"}

\* a draw that starts at 0
ChallengesFromZero == {MinChallenge - 1, MinChallenge, MaxChallenge}

\* the difficulties random.randint(1, 20) is let to draw: both ends of the
\* range and one value between
Challenges == {MinChallenge, MinChallenge + 1, MaxChallenge}

\* transactionID values a request can carry
TxIds == -1..(MaxTxId + 1)

\* hashlib.sha1(solution.encode('utf-8')).hexdigest(), tabulated for the
\* candidates (the real digests, as sequences of hexadecimal characters)
Sha1Hex(s) ==
    CASE s = "a" -> <<"8","6","f","7","e","4","3","7","f","a",
                      "a","5","a","7","f","c","e","1","5","d",
                      "1","d","d","c","b","9","e","a","e","a",
                      "e","a","3","7","7","6","6","7","b","8">>
      [] s = "i" -> <<"0","4","2","d","c","4","5","1","2","f",
                      "a","3","d","3","9","1","c","5","1","7",
                      "0","c","f","3","a","a","6","1","e","6",
                      "a","6","3","8","f","8","4","3","4","2">>
      [] s = "ujOeHwdFcAefAZhn" ->
                    <<"c","f","5","4","e","3","4","7","e","c",
                      "f","0","8","3","2","0","4","7","5","3",
                      "0","5","5","9","c","e","f","e","6","7",
                      "0","0","d","c","6","2","b","c","3","4">>
      [] s = "HddmQAtKCsXRpJG2" ->
                    <<"0","f","0","5","a","b","e","8","0","a",
                      "d","a","0","d","c","a","a","2","f","9",
                      "a","f","e","e","2","5","5","9","0","c",
                      "3","e","d","3","2","0","5","4","c","c">>
      [] s = "0sJxTmppj2Juy9Fo" ->
                    <<"0","0","3","9","d","2","9","c","e","3",
                      "e","8","3","d","3","a","1","2","9","4",
                      "6","2","9","a","4","1","c","3","6","1",
                      "8","8","e","a","2","c","d","2","a","4">>
      [] s = ""  -> <<"d","a","3","9","a","3","e","e","5","e",
                      "6","b","4","b","0","d","3","2","5","5",
                      "b","f","e","f","9","5","6","0","1","8",
                      "9","0","a","f","d","8","0","7","0","9">>

\* '0' * challenge
Zeros(n) == [i \in 1..n |-> "0"]

\* str.startswith
StartsWith(h, prefix) ==
    /\ Len(prefix) <= Len(h)
    /\ SubSeq(h, 1, Len(prefix)) = prefix

\* a verification that looks at the first character only
CheckSolutionFirstChar(challenge, solution) ==
    IF solution = "" THEN FALSE
    ELSE StartsWith(Sha1Hex(solution), Zeros(1))

\* MinerServicer._check_solution
CheckSolution(challenge, solution) ==
    IF solution = "" THEN FALSE
    ELSE LET hash_hex == Sha1Hex(solution)
             target_prefix == Zeros(challenge)
         IN  StartsWith(hash_hex, target_prefix)

VARIABLES
    transactions,            \* self.transactions: txID -> row
    current_transaction_id,  \* self.current_transaction_id
    lock,                    \* self.lock: Free or the thread holding it
    pc,                      \* per thread: position inside submitChallenge
    req,                     \* per thread: the request being served
    result,                  \* per thread: submitChallenge's local `result`
    resp,                    \* the response of the call started last (NoResp until it returns)
    accepted                 \* history: the requests decided as result = 1, in order

\* the client (miner_client.py): the module-level search state, the
\* position of local_mine and of each mine_worker thread
VARIABLES
    solution_found_event,    \* threading.Event: TRUE when set
    solution_lock,           \* threading.Lock: Free or the worker holding it
    solution_storage,        \* solution_storage["solution"]: None or Some(nonce)
    mine_pc,                 \* position of local_mine
    mine_challenge,          \* local_mine's argument `challenge`
    started,                 \* threads started by the loop of lines 71-74
    joined,                  \* threads joined by the loop of lines 80-81
    mine_ret,                \* the value the last local_mine call returned
    wpc,                     \* per worker: position inside mine_worker
    nonce,                   \* per worker: its local `nonce`
    writes,                  \* history: writes to solution_storage in this call
    first_locker,            \* history: the first worker to take solution_lock in this call (0: none)
    late                     \* history, per worker: attempts made after the event was set

\* the client's do_mine (miner_client.py, lines 156-213): its position and
\* its locals; None while a local is not assigned
VARIABLES
    d_pc,                    \* position of do_mine
    d_tx_id,                 \* tx_id, read in step 1
    d_challenge,             \* challenge, read in step 2
    d_solution,              \* solution, the value local_mine returned
    d_result,                \* result, the answer to the submission of step 5
    d_thread                 \* the server thread serving the submission (0: none)

svars == <<transactions, current_transaction_id, lock, pc, req, result, resp, accepted>>

mvars == <<solution_found_event, solution_lock, solution_storage, mine_pc,
           mine_challenge, started, joined, mine_ret, wpc, nonce,
           writes, first_locker, late>>

dvars == <<d_pc, d_tx_id, d_challenge, d_solution, d_result, d_thread>>

vars == <<svars, mvars, dvars>>

Workers == 1..num_threads

\* the strings random.choices(ascii_letters + digits, k=16) is let to draw;
\* their digests start with no, one and two zeros
MineNonces == {"ujOeHwdFcAefAZhn", "HddmQAtKCsXRpJG2", "0sJxTmppj2Juy9Fo"}

\* the arguments local_mine is called with: both ends of the valid range,
\* one value between, and the two values next to the range
MineChallenges == {MinChallenge - 1, MinChallenge, MinChallenge + 1,
                   MaxChallenge, MaxChallenge + 1}

\* module level, lines 18-22: event clear, lock free, storage None; no
\* search running
MineInit ==
    /\ solution_found_event = FALSE
    /\ solution_lock = Free
    /\ solution_storage = None
    /\ mine_pc = "idle"
    /\ mine_challenge = MinChallenge
    /\ started = 0
    /\ joined = 0
    /\ mine_ret = None
    /\ wpc = [w \in Workers |-> "unstarted"]
    /\ nonce = [w \in Workers |-> ""]
    /\ writes = <<>>
    /\ first_locker = 0
    /\ late = [w \in Workers |-> 0]

\* random.randint(1000, 9999), line 13: both ends of the range; 1000 is
\* also the id of another client
MyClientIDs == {1000, 9999}

\* do_mine not called yet
DoMineInit ==
    /\ d_pc = "idle"
    /\ d_tx_id = None
    /\ d_challenge = None
    /\ d_solution = None
    /\ d_result = None
    /\ d_thread = 0

NoReq == [transactionID |-> -1, clientID |-> 0, solution |-> ""]

\* a response together with the call it answers; `value` is the integer of
\* the response message (transactionID, challenge, status, result, winnerID),
\* `solution` and `challenge` are the two further fields of
\* SolutionInfoResponse and stay "" and -1 for the other messages
Response(op, r, value, solution, challenge) ==
    [op |-> op, transactionID |-> r.transactionID, clientID |-> r.clientID,
     sent |-> r.solution, value |-> value, solution |-> solution,
     challenge |-> challenge]

\* no response: nothing served yet, or the call started last has not returned
NoResp == Response("none", NoReq, -1, "", -1)

ReadReq(tx_id) == [transactionID |-> tx_id, clientID |-> 0, solution |-> ""]

\* the row _generate_new_challenge inserts
NewRow(challenge) == [challenge |-> challenge, solution |-> None, winner |-> NoWinner]

\* MinerServicer.__init__: empty table, id -1, then one _generate_new_challenge
Init ==
    /\ \E challenge \in Challenges :
          transactions = [tx \in {InitialTxId + 1} |-> NewRow(challenge)]
    /\ current_transaction_id = InitialTxId + 1
    /\ lock = Free
    /\ pc = [t \in Threads |-> "idle"]
    /\ req = [t \in Threads |-> NoReq]
    /\ result = [t \in Threads |-> -1]
    /\ resp = NoResp
    /\ accepted = <<>>
    /\ MineInit
    /\ DoMineInit

\* `tx_id in self.transactions`
Exists(tx_id) == tx_id \in DOMAIN transactions

\* getTransactionID: the value read under the lock
GetTransactionIDValueAhead == current_transaction_id + 1

GetTransactionIDValue == current_transaction_id

\* getChallenge: -1 unless the id is in the table
GetChallengeValue(tx_id) ==
    IF Exists(tx_id) THEN transactions[tx_id].challenge ELSE -1

\* getTransactionStatus: -1 invalid, 1 pending, 0 solved
GetTransactionStatusValue(tx_id) ==
    IF Exists(tx_id)
    THEN IF transactions[tx_id].winner = NoWinner THEN 1 ELSE 0
    ELSE -1

\* a getWinner that returns the stored winner as it is
GetWinnerValueRaw(tx_id) ==
    IF Exists(tx_id) THEN transactions[tx_id].winner ELSE -1

\* getWinner: -1 invalid, 0 no winner yet, else the stored winner
GetWinnerValue(tx_id) ==
    IF Exists(tx_id)
    THEN IF transactions[tx_id].winner = NoWinner THEN 0
         ELSE transactions[tx_id].winner
    ELSE -1

\* getSolution: <<status, solution, challenge>>
GetSolutionValue(tx_id) ==
    IF Exists(tx_id)
    THEN LET tx_data == transactions[tx_id]
         IN  IF tx_data.winner = NoWinner
             THEN <<1, "", tx_data.challenge>>
             ELSE <<0, tx_data.solution[1], tx_data.challenge>>
    ELSE <<-1, "", -1>>

\* submitChallenge: the value of `result` chosen by the if/elif/else
SubmitDecision(tx_id, solution) ==
    IF ~Exists(tx_id) THEN -1
    ELSE IF transactions[tx_id].winner # NoWinner THEN 2
    ELSE IF CheckSolution(transactions[tx_id].challenge, solution) THEN 1
    ELSE 0

\* the read handlers take the lock, look up, release and return: one step,
\* possible only while no thread holds the lock
ServeRead == lock = Free

Keep == UNCHANGED <<transactions, current_transaction_id, lock, pc, req, result, accepted>>

GetTransactionID ==
    /\ ServeRead
    /\ resp' = Response("getTransactionID", NoReq, GetTransactionIDValue, "", -1)
    /\ Keep

GetChallenge ==
    /\ ServeRead
    /\ \E tx_id \in TxIds :
          resp' = Response("getChallenge", ReadReq(tx_id), GetChallengeValue(tx_id), "", -1)
    /\ Keep

GetTransactionStatus ==
    /\ ServeRead
    /\ \E tx_id \in TxIds :
          resp' = Response("getTransactionStatus", ReadReq(tx_id),
                           GetTransactionStatusValue(tx_id), "", -1)
    /\ Keep

GetWinner ==
    /\ ServeRead
    /\ \E tx_id \in TxIds :
          resp' = Response("getWinner", ReadReq(tx_id), GetWinnerValue(tx_id), "", -1)
    /\ Keep

GetSolution ==
    /\ ServeRead
    /\ \E tx_id \in TxIds :
          LET v == GetSolutionValue(tx_id)
          IN  resp' = Response("getSolution", ReadReq(tx_id), v[1], v[2], v[3])
    /\ Keep

\* submitChallenge, lines 119-139/148, for the request (tx_id, client_id,
\* solution): read the request, take the lock, decide
SubmitRequest(t, tx_id, client_id, solution) ==
    /\ pc[t] = "idle"
    /\ lock = Free
    /\ LET decision == SubmitDecision(tx_id, solution)
       IN  /\ decision = 1 => current_transaction_id < MaxTxId
           /\ req' = [req EXCEPT ![t] = [transactionID |-> tx_id,
                                         clientID |-> client_id,
                                         solution |-> solution]]
           /\ result' = [result EXCEPT ![t] = decision]
           /\ pc' = [pc EXCEPT ![t] = IF decision = 1 THEN "l140" ELSE "l151"]
           /\ accepted' = IF decision = 1 THEN Append(accepted, req'[t]) ELSE accepted
    /\ lock' = t
    /\ resp' = NoResp
    /\ UNCHANGED <<transactions, current_transaction_id>>

\* submitChallenge called by any client with any request
SubmitChallenge(t) ==
    \E tx_id \in TxIds, client_id \in ClientIDs, solution \in Candidates :
        SubmitRequest(t, tx_id, client_id, solution)

\* an acceptance that does not store the solution
StoreSolutionSkipped(t) ==
    /\ pc[t] = "l140"
    /\ pc' = [pc EXCEPT ![t] = "l141"]
    /\ UNCHANGED <<transactions, current_transaction_id, lock, req, result, resp, accepted>>

\* line 140: self.transactions[tx_id]["solution"] = solution
StoreSolution(t) ==
    /\ pc[t] = "l140"
    /\ transactions' = [transactions EXCEPT
                          ![req[t].transactionID].solution = Some(req[t].solution)]
    /\ pc' = [pc EXCEPT ![t] = "l141"]
    /\ UNCHANGED <<current_transaction_id, lock, req, result, resp, accepted>>

\* line 141: self.transactions[tx_id]["winner"] = client_id
StoreWinner(t) ==
    /\ pc[t] = "l141"
    /\ transactions' = [transactions EXCEPT
                          ![req[t].transactionID].winner = req[t].clientID]
    /\ pc' = [pc EXCEPT ![t] = "l145"]
    /\ UNCHANGED <<current_transaction_id, lock, req, result, resp, accepted>>

\* an id that is not advanced: the new round overwrites the current one
NextTxIdStale == current_transaction_id

\* _generate_new_challenge, line 32: the id of the new round
NextTxId == current_transaction_id + 1

\* line 145: self._generate_new_challenge(), with random.randint(1, 20)
GenerateNewChallenge(t) ==
    /\ pc[t] = "l145"
    /\ current_transaction_id' = NextTxId
    /\ \E challenge \in Challenges :
          transactions' = [tx \in DOMAIN transactions \cup {NextTxId} |->
                             IF tx = NextTxId THEN NewRow(challenge)
                             ELSE transactions[tx]]
    /\ pc' = [pc EXCEPT ![t] = "l151"]
    /\ UNCHANGED <<lock, req, result, resp, accepted>>

\* end of the with block and line 151: release the lock, return the result
SubmitReturn(t) ==
    /\ pc[t] = "l151"
    /\ lock' = Free
    /\ resp' = Response("submitChallenge", req[t], result[t], "", -1)
    /\ pc' = [pc EXCEPT ![t] = "idle"]
    /\ req' = [req EXCEPT ![t] = NoReq]
    /\ result' = [result EXCEPT ![t] = -1]
    /\ UNCHANGED <<transactions, current_transaction_id, accepted>>

\* the server alone: the client's search state does not move
Next ==
    \/ GetTransactionID /\ UNCHANGED <<mvars, dvars>>
    \/ GetChallenge /\ UNCHANGED <<mvars, dvars>>
    \/ GetTransactionStatus /\ UNCHANGED <<mvars, dvars>>
    \/ GetWinner /\ UNCHANGED <<mvars, dvars>>
    \/ GetSolution /\ UNCHANGED <<mvars, dvars>>
    \/ \E t \in Threads :
          \/ SubmitChallenge(t) /\ UNCHANGED <<mvars, dvars>>
          \/ StoreSolution(t) /\ UNCHANGED <<mvars, dvars>>
          \/ StoreWinner(t) /\ UNCHANGED <<mvars, dvars>>
          \/ GenerateNewChallenge(t) /\ UNCHANGED <<mvars, dvars>>
          \/ SubmitReturn(t) /\ UNCHANGED <<mvars, dvars>>

Spec == Init /\ [][Next]_vars

\* ------------------------------------------------------------------------
\* The client's search: local_mine and its mine_worker threads
\* ------------------------------------------------------------------------

\* a validity test that lets 0 through
ValidDifficultyFromZero(challenge) == ~(challenge < 0 \/ challenge > MaxChallenge)

\* line 57: `challenge <= 0 or challenge > 20` is the invalid case
ValidDifficulty(challenge) == ~(challenge <= 0 \/ challenge > MaxChallenge)

\* line 65: target_prefix = '0' * challenge, passed to every worker
TargetPrefix == Zeros(mine_challenge)

\* line 41: hash_hex.startswith(target_prefix)
Found(n) == StartsWith(Sha1Hex(n), TargetPrefix)

\* what local_mine(challenge) can return, lines 57-59 and 83: None for an
\* invalid challenge, otherwise a nonce whose digest has the prefix
MineOutcomes(challenge) ==
    IF ~ValidDifficulty(challenge)
    THEN {None}
    ELSE {Some(n) : n \in {m \in MineNonces :
                              StartsWith(Sha1Hex(m), Zeros(challenge))}}

\* local_mine with an invalid challenge, lines 57-59: return None
LocalMineInvalid ==
    /\ mine_pc = "idle"
    /\ \E challenge \in MineChallenges :
          /\ ~ValidDifficulty(challenge)
          /\ mine_challenge' = challenge
    /\ mine_ret' = None
    /\ UNCHANGED <<solution_found_event, solution_lock, solution_storage, mine_pc,
                   started, joined, wpc, nonce, writes, first_locker, late>>

\* a local_mine that starts a search without clearing the event and the
\* storage of the search before
LocalMineBeginNoClear ==
    /\ mine_pc = "idle"
    /\ \E challenge \in MineChallenges :
          /\ ValidDifficulty(challenge)
          /\ mine_challenge' = challenge
    /\ mine_pc' = "start"
    /\ started' = 0
    /\ joined' = 0
    /\ wpc' = [w \in Workers |-> "unstarted"]
    /\ nonce' = [w \in Workers |-> ""]
    /\ writes' = <<>>
    /\ first_locker' = 0
    /\ late' = [w \in Workers |-> 0]
    /\ UNCHANGED <<solution_found_event, solution_storage, solution_lock, mine_ret>>

\* local_mine with a valid challenge, lines 57-69: clear the event, empty
\* the storage, no thread yet
LocalMineBegin ==
    /\ mine_pc = "idle"
    /\ \E challenge \in MineChallenges :
          /\ ValidDifficulty(challenge)
          /\ mine_challenge' = challenge
    /\ solution_found_event' = FALSE
    /\ solution_storage' = None
    /\ mine_pc' = "start"
    /\ started' = 0
    /\ joined' = 0
    /\ wpc' = [w \in Workers |-> "unstarted"]
    /\ nonce' = [w \in Workers |-> ""]
    /\ writes' = <<>>
    /\ first_locker' = 0
    /\ late' = [w \in Workers |-> 0]
    /\ UNCHANGED <<solution_lock, mine_ret>>

\* lines 71-74: one turn of the loop starts thread T-i
StartThread ==
    /\ mine_pc = "start"
    /\ started' = started + 1
    /\ wpc' = [wpc EXCEPT ![started + 1] = "l32"]
    /\ mine_pc' = IF started + 1 = num_threads THEN "wait" ELSE "start"
    /\ UNCHANGED <<solution_found_event, solution_lock, solution_storage,
                   mine_challenge, joined, mine_ret, nonce, writes,
                   first_locker, late>>

\* a local_mine that goes on to the joins without waiting for the event
WaitEventSkipped ==
    /\ mine_pc = "wait"
    /\ mine_pc' = "join"
    /\ UNCHANGED <<solution_found_event, solution_lock, solution_storage,
                   mine_challenge, started, joined, mine_ret, wpc, nonce,
                   writes, first_locker, late>>

\* line 77: solution_found_event.wait()
WaitEvent ==
    /\ mine_pc = "wait"
    /\ solution_found_event
    /\ mine_pc' = "join"
    /\ UNCHANGED <<solution_found_event, solution_lock, solution_storage,
                   mine_challenge, started, joined, mine_ret, wpc, nonce,
                   writes, first_locker, late>>

\* lines 80-81: one turn of the loop joins the next thread
JoinThread ==
    /\ mine_pc = "join"
    /\ wpc[joined + 1] = "done"
    /\ joined' = joined + 1
    /\ mine_pc' = IF joined + 1 = num_threads THEN "l83" ELSE "join"
    /\ UNCHANGED <<solution_found_event, solution_lock, solution_storage,
                   mine_challenge, started, mine_ret, wpc, nonce, 
                   writes, first_locker, late>>

\* line 83: return solution_storage["solution"]
LocalMineReturn ==
    /\ mine_pc = "l83"
    /\ mine_ret' = solution_storage
    /\ mine_pc' = "idle"
    /\ UNCHANGED <<solution_found_event, solution_lock, solution_storage,
                   mine_challenge, started, joined, wpc, nonce, 
                   writes, first_locker, late>>

\* a worker loop that never looks at the event
WorkerCheckNever(w) ==
    /\ wpc[w] = "l32"
    /\ wpc' = [wpc EXCEPT ![w] = "l35"]
    /\ UNCHANGED <<solution_found_event, solution_lock, solution_storage, mine_pc,
                   mine_challenge, started, joined, mine_ret, nonce, 
                   writes, first_locker, late>>

\* line 32: while not solution_found_event.is_set(); when the loop ends the
\* thread ends and its local `nonce` with it
WorkerCheck(w) ==
    /\ wpc[w] = "l32"
    /\ wpc' = [wpc EXCEPT ![w] = IF solution_found_event THEN "done" ELSE "l35"]
    /\ nonce' = [nonce EXCEPT ![w] = IF solution_found_event THEN "" ELSE @]
    /\ UNCHANGED <<solution_found_event, solution_lock, solution_storage, mine_pc,
                   mine_challenge, started, joined, mine_ret, 
                   writes, first_locker, late>>

\* lines 35-41: draw the nonce n, hash it, test the prefix; a nonce that
\* fails the test is not read again (the next turn of the loop draws
\* another), so it is not kept
WorkerAttemptWith(w, n) ==
    /\ wpc[w] = "l35"
    /\ nonce' = [nonce EXCEPT ![w] = IF Found(n) THEN n ELSE ""]
    /\ wpc' = [wpc EXCEPT ![w] = IF Found(n) THEN "l43" ELSE "l32"]
    /\ late' = [late EXCEPT ![w] = IF solution_found_event THEN @ + 1 ELSE @]
    /\ UNCHANGED <<solution_found_event, solution_lock, solution_storage, mine_pc,
                   mine_challenge, started, joined, mine_ret, writes,
                   first_locker>>

WorkerAttempt(w) == \E n \in MineNonces : WorkerAttemptWith(w, n)

\* line 43: with solution_lock
WorkerAcquire(w) ==
    /\ wpc[w] = "l43"
    /\ solution_lock = Free
    /\ solution_lock' = w
    /\ first_locker' = IF first_locker = 0 THEN w ELSE first_locker
    /\ wpc' = [wpc EXCEPT ![w] = "l45"]
    /\ UNCHANGED <<solution_found_event, solution_storage, mine_pc, mine_challenge,
                   started, joined, mine_ret, nonce, writes, late>>

\* a worker that stores its find without looking at the event again
WorkerRecheckNever(w) ==
    /\ wpc[w] = "l45"
    /\ wpc' = [wpc EXCEPT ![w] = "l46"]
    /\ UNCHANGED <<solution_found_event, solution_lock, solution_storage, mine_pc,
                   mine_challenge, started, joined, mine_ret, nonce, 
                   writes, first_locker, late>>

\* line 45: if not solution_found_event.is_set()
WorkerRecheck(w) ==
    /\ wpc[w] = "l45"
    /\ wpc' = [wpc EXCEPT ![w] = IF solution_found_event THEN "l49" ELSE "l46"]
    /\ UNCHANGED <<solution_found_event, solution_lock, solution_storage, mine_pc,
                   mine_challenge, started, joined, mine_ret, nonce, 
                   writes, first_locker, late>>

\* line 46: solution_storage["solution"] = nonce
WorkerStore(w) ==
    /\ wpc[w] = "l46"
    /\ solution_storage' = Some(nonce[w])
    /\ writes' = Append(writes, [worker |-> w, nonce |-> nonce[w]])
    /\ wpc' = [wpc EXCEPT ![w] = "l47"]
    /\ UNCHANGED <<solution_found_event, solution_lock, mine_pc, mine_challenge,
                   started, joined, mine_ret, nonce, first_locker, late>>

\* a worker that stores its find and does not set the event
WorkerSetEventSkipped(w) ==
    /\ wpc[w] = "l47"
    /\ wpc' = [wpc EXCEPT ![w] = "l49"]
    /\ UNCHANGED <<solution_found_event, solution_lock, solution_storage, mine_pc,
                   mine_challenge, started, joined, mine_ret, nonce, 
                   writes, first_locker, late>>

\* line 47: solution_found_event.set()
WorkerSetEvent(w) ==
    /\ wpc[w] = "l47"
    /\ solution_found_event' = TRUE
    /\ wpc' = [wpc EXCEPT ![w] = "l49"]
    /\ UNCHANGED <<solution_lock, solution_storage, mine_pc, mine_challenge,
                   started, joined, mine_ret, nonce, writes,
                   first_locker, late>>

\* end of the with block and line 49: release solution_lock, return
WorkerReturn(w) ==
    /\ wpc[w] = "l49"
    /\ solution_lock' = Free
    /\ wpc' = [wpc EXCEPT ![w] = "done"]
    /\ nonce' = [nonce EXCEPT ![w] = ""]
    /\ UNCHANGED <<solution_found_event, solution_storage, mine_pc, mine_challenge,
                   started, joined, mine_ret, writes,
                   first_locker, late>>

\* the server as the search sees it: one round, nothing served
InitMine == Init /\ transactions[0].challenge = MinChallenge

\* the client's search alone: the server does not move
NextMine ==
    \/ LocalMineInvalid /\ UNCHANGED <<svars, dvars>>
    \/ LocalMineBegin /\ UNCHANGED <<svars, dvars>>
    \/ StartThread /\ UNCHANGED <<svars, dvars>>
    \/ WaitEvent /\ UNCHANGED <<svars, dvars>>
    \/ JoinThread /\ UNCHANGED <<svars, dvars>>
    \/ LocalMineReturn /\ UNCHANGED <<svars, dvars>>
    \/ \E w \in Workers :
          \/ WorkerCheck(w) /\ UNCHANGED <<svars, dvars>>
          \/ WorkerAttempt(w) /\ UNCHANGED <<svars, dvars>>
          \/ WorkerAcquire(w) /\ UNCHANGED <<svars, dvars>>
          \/ WorkerRecheck(w) /\ UNCHANGED <<svars, dvars>>
          \/ WorkerStore(w) /\ UNCHANGED <<svars, dvars>>
          \/ WorkerSetEvent(w) /\ UNCHANGED <<svars, dvars>>
          \/ WorkerReturn(w) /\ UNCHANGED <<svars, dvars>>

SpecMine == InitMine /\ [][NextMine]_vars

\* a worker's next statement
WorkerStep(w) ==
    \/ WorkerCheck(w)
    \/ WorkerAttempt(w)
    \/ WorkerAcquire(w)
    \/ WorkerRecheck(w)
    \/ WorkerStore(w)
    \/ WorkerSetEvent(w)
    \/ WorkerReturn(w)

\* the next statement of a local_mine call that has begun
MainStep == StartThread \/ WaitEvent \/ JoinThread \/ LocalMineReturn

\* an attempt whose nonce has the prefix
GoodAttempt == \E w \in Workers, n \in MineNonces : Found(n) /\ WorkerAttemptWith(w, n)

\* the search under a fair scheduler: every started thread and the main
\* thread keep running, and the random draws do not avoid the nonces that
\* have the prefix for ever
FairMine ==
    /\ InitMine
    /\ [][NextMine]_vars
    /\ WF_vars(MainStep /\ UNCHANGED <<svars, dvars>>)
    /\ \A w \in Workers : WF_vars(WorkerStep(w) /\ UNCHANGED <<svars, dvars>>)
    /\ SF_vars(GoodAttempt /\ UNCHANGED <<svars, dvars>>)

\* ------------------------------------------------------------------------
\* do_mine, lines 156-213, against the server
\* ------------------------------------------------------------------------

\* step 1, lines 164-165: tx_id = getTransactionID().transactionID
DoMineGetTransactionID ==
    /\ d_pc = "idle"
    /\ ServeRead
    /\ d_tx_id' = Some(GetTransactionIDValue)
    /\ d_pc' = "step2"
    /\ UNCHANGED <<svars, mvars, d_challenge, d_solution, d_result, d_thread>>

\* step 2, lines 170-175: challenge = getChallenge(tx_id).challenge; return
\* if it is -1
DoMineGetChallenge ==
    /\ d_pc = "step2"
    /\ ServeRead
    /\ d_challenge' = Some(GetChallengeValue(d_tx_id[1]))
    /\ d_pc' = IF d_challenge'[1] = -1 THEN "return" ELSE "step3"
    /\ UNCHANGED <<svars, mvars, d_tx_id, d_solution, d_result, d_thread>>

\* step 3, lines 180-184: solution = local_mine(challenge), the whole search
\* as one step (it touches no server state); return if `not solution`
DoMineLocalMine ==
    /\ d_pc = "step3"
    /\ \E s \in MineOutcomes(d_challenge[1]) :
          /\ d_solution' = s
          /\ d_pc' = IF s = None THEN "return" ELSE "step5"
    /\ UNCHANGED <<svars, mvars, d_tx_id, d_challenge, d_result, d_thread>>

\* step 5, lines 191-196: submitChallenge(tx_id, MY_CLIENT_ID, solution) is
\* taken up by server thread t
DoMineSubmit(t) ==
    /\ d_pc = "step5"
    /\ \E id \in MyClientIDs : SubmitRequest(t, d_tx_id[1], id, d_solution[1])
    /\ d_thread' = t
    /\ d_pc' = "step6"
    /\ UNCHANGED <<mvars, d_tx_id, d_challenge, d_solution, d_result>>

\* step 6, lines 200-208: result = submit_response.result, as the serving
\* thread returns it
DoMineResult ==
    /\ d_pc = "step6"
    /\ SubmitReturn(d_thread)
    /\ d_result' = Some(result[d_thread])
    /\ d_thread' = 0
    /\ d_pc' = "return"
    /\ UNCHANGED <<mvars, d_tx_id, d_challenge, d_solution>>

\* lines 175, 184 and 208: do_mine returns and its locals are gone
DoMineReturn ==
    /\ d_pc = "return"
    /\ d_pc' = "idle"
    /\ d_tx_id' = None
    /\ d_challenge' = None
    /\ d_solution' = None
    /\ d_result' = None
    /\ UNCHANGED <<svars, mvars, d_thread>>

\* the submissions of the other clients while one client runs do_mine: to
\* any round of the table, under the id that reads as 'no winner' or under
\* an ordinary id, with a candidate that verifies for difficulty 1 and is
\* rejected for the others.  Their reads, and their submissions to ids
\* outside the table, leave the table as it is and are not drawn here.
OtherClientIDs == {NoWinner, 1000}

OtherCandidates == {"i"}

OtherSubmit(t) ==
    \E tx_id \in 0..current_transaction_id, client_id \in OtherClientIDs,
       solution \in OtherCandidates :
        SubmitRequest(t, tx_id, client_id, solution)

\* do_mine of one client while other clients submit through the other
\* server threads
NextMiner ==
    \/ DoMineGetTransactionID
    \/ DoMineGetChallenge
    \/ DoMineLocalMine
    \/ DoMineResult
    \/ DoMineReturn
    \/ \E t \in Threads :
          \/ DoMineSubmit(t)
          \/ OtherSubmit(t) /\ UNCHANGED <<mvars, dvars>>
          \/ StoreSolution(t) /\ UNCHANGED <<mvars, dvars>>
          \/ StoreWinner(t) /\ UNCHANGED <<mvars, dvars>>
          \/ GenerateNewChallenge(t) /\ UNCHANGED <<mvars, dvars>>
          \/ t # d_thread /\ SubmitReturn(t) /\ UNCHANGED <<mvars, dvars>>

SpecMiner == Init /\ [][NextMiner]_vars

\* ------------------------------------------------------------------------
\* Vocabulary of the properties
\* ------------------------------------------------------------------------

\* a state a request can observe: no thread is inside `with self.lock:`
Observable == lock = Free

\* the table as a whole
table == <<transactions, current_transaction_id>>

\* positions in the history of the submissions decided as Accepted for tx
AcceptedFor(tx) == {i \in 1..Len(accepted) : accepted[i].transactionID = tx}

\* the verification predicate of the specification: the first `challenge`
\* characters of the hexadecimal digest are all '0'
Verifies(challenge, candidate) ==
    \A i \in 1..challenge :
        i <= Len(Sha1Hex(candidate)) /\ Sha1Hex(candidate)[i] = "0"

\* thread t starts serving a submitChallenge in this step
Starts(t) == pc[t] = "idle" /\ pc'[t] # "idle"

\* thread t returns from submitChallenge in this step
Returns(t) == pc[t] = "l151" /\ pc'[t] = "idle"

\* the ids of the table
ValidIds == 0..current_transaction_id

\* ------------------------------------------------------------------------
\* C1: for every round id, at most one submitChallenge call is ever decided
\* as Accepted (result 1), whatever the clientID values and candidates.
\* ------------------------------------------------------------------------
C1_AtMostOneAccepted ==
    \A tx \in TxIds : Cardinality(AcceptedFor(tx)) <= 1

\* ------------------------------------------------------------------------
\* C2: once a submission for a round has been accepted (the round has its
\* winner), every further submitChallenge for that round gets result 2,
\* whether or not its candidate verifies, and changes nothing in the table.
\* ------------------------------------------------------------------------
C2_LaterSubmissionsAlreadySolved ==
    [][\A t \in Threads :
          (Starts(t) /\ AcceptedFor(req'[t].transactionID) # {})
              => (result'[t] = 2 /\ pc'[t] = "l151" /\ UNCHANGED table)]_vars

\* ------------------------------------------------------------------------
\* C3: rollover atomicity.  In every observable state, for each round r
\* with an Accepted submission, getChallenge(r+1) is a difficulty (not -1)
\* and getTransactionStatus(r) is 0; and a round r+1 exists exactly when
\* round r is resolved.
\* ------------------------------------------------------------------------
C3_RolloverAtomicity ==
    Observable =>
        /\ \A i \in 1..Len(accepted) :
              LET r == accepted[i].transactionID
              IN  /\ GetChallengeValue(r + 1) # -1
                  /\ GetTransactionStatusValue(r) = 0
        /\ \A r \in ValidIds :
              (GetTransactionStatusValue(r) = 0) <=> Exists(r + 1)

\* ------------------------------------------------------------------------
\* C4: idempotent rejection.  A submitChallenge on a pending round with a
\* candidate that fails verification is decided 0, returns 0 and leaves the
\* whole table unchanged; in the state it returns to, the same submission
\* would be decided 0 again.
\* ------------------------------------------------------------------------
C4_IdempotentRejection ==
    [][\A t \in Threads :
          /\ (/\ Starts(t)
              /\ Exists(req'[t].transactionID)
              /\ transactions[req'[t].transactionID].winner = NoWinner
              /\ ~Verifies(transactions[req'[t].transactionID].challenge,
                           req'[t].solution))
                 => (result'[t] = 0 /\ pc'[t] = "l151" /\ UNCHANGED table)
          /\ (Returns(t) /\ result[t] = 0)
                 => /\ resp'.op = "submitChallenge"
                    /\ resp'.value = 0
                    /\ UNCHANGED table
                    /\ \A tx \in TxIds, solution \in Candidates :
                          (tx = req[t].transactionID /\ solution = req[t].solution)
                              => SubmitDecision(tx, solution)' = 0]_vars

\* a rejected submission on an existing, still pending round has returned
C4_Witness ==
    /\ Observable
    /\ resp.op = "submitChallenge"
    /\ resp.value = 0
    /\ resp.sent = "i"
    /\ Exists(resp.transactionID)
    /\ transactions[resp.transactionID].winner = NoWinner
    /\ transactions[resp.transactionID].solution = None

\* ------------------------------------------------------------------------
\* C5: resolved is terminal.  Once the writes of an accepted submission to
\* a round are done, no step changes that round's winner or solution, and
\* the round is not pending.
\* ------------------------------------------------------------------------
Settled(tx) ==
    /\ AcceptedFor(tx) # {}
    /\ Cardinality(AcceptedFor(tx)) = 1
          => ~ \E t \in Threads :
                  pc[t] \in {"l140", "l141"} /\ req[t].transactionID = tx

C5_ResolvedIsTerminal ==
    [][\A tx \in DOMAIN transactions :
          Settled(tx) => /\ transactions'[tx].winner = transactions[tx].winner
                         /\ transactions'[tx].solution = transactions[tx].solution
                         /\ transactions[tx].winner # NoWinner]_vars

\* ------------------------------------------------------------------------
\* C6: in every observable state each round has its solution set if and
\* only if its winner is set (winner # -1).
\* ------------------------------------------------------------------------
C6_SolutionIffWinner ==
    Observable =>
        \A tx \in DOMAIN transactions :
            (transactions[tx].solution # None) <=> (transactions[tx].winner # NoWinner)

\* ------------------------------------------------------------------------
\* C7: in every observable state exactly one round is pending, it is the
\* round getTransactionID returns, that id is the highest of the table, and
\* every round with a lower id is resolved.
\* ------------------------------------------------------------------------
C7_ExactlyOnePending ==
    Observable =>
        /\ {tx \in DOMAIN transactions : GetTransactionStatusValue(tx) = 1}
              = {GetTransactionIDValue}
        /\ \A tx \in DOMAIN transactions : tx <= GetTransactionIDValue

\* ------------------------------------------------------------------------
\* C8: -1 means invalid id in every operation.  A response of getChallenge,
\* getTransactionStatus, submitChallenge, getWinner or getSolution carries
\* -1 (getSolution: status -1) if and only if the requested id is not in
\* the table (negative or above the current id), and a call answered -1
\* leaves the table unchanged.
\* ------------------------------------------------------------------------
IdOps == {"getChallenge", "getTransactionStatus", "submitChallenge",
          "getWinner", "getSolution"}

C8_SentinelMeansInvalidId ==
    [][/\ (resp' # resp /\ resp'.op \in IdOps)
             => /\ (resp'.value = -1) <=> (resp'.transactionID \notin ValidIds)
                /\ (resp'.value = -1) => UNCHANGED table
       /\ \A t \in Threads :
             Starts(t) => /\ (result'[t] = -1) <=> (req'[t].transactionID \notin ValidIds)
                          /\ (result'[t] = -1) => (pc'[t] = "l151" /\ UNCHANGED table)
             ]_vars

\* submitChallenge answered -1 for the id just above the current one, and
\* the last created round is untouched
C8_Witness ==
    /\ Observable
    /\ resp.op = "submitChallenge"
    /\ resp.value = -1
    /\ current_transaction_id >= 1
    /\ resp.transactionID = current_transaction_id + 1
    /\ resp.sent = "i"

\* ------------------------------------------------------------------------
\* C9: for every existing round, in every observable state, getWinner is 0
\* exactly when getTransactionStatus is 1 (pending), and otherwise it is
\* the clientID of the accepted submitChallenge of that round.
\* ------------------------------------------------------------------------
C9_WinnerZeroIffPending ==
    Observable =>
        \A tx \in DOMAIN transactions :
            /\ (GetWinnerValue(tx) = 0) <=> (GetTransactionStatusValue(tx) = 1)
            /\ GetTransactionStatusValue(tx) # 1
                  => \E i \in AcceptedFor(tx) : GetWinnerValue(tx) = accepted[i].clientID

\* ------------------------------------------------------------------------
\* C10: the table only grows and ids are never reused.  The ids are always
\* exactly 0..current_transaction_id; in observable states the current id
\* is the number of Accepted decisions so far; a step changes the id only
\* by +1, only inside a submission decided Accepted, adds exactly that id
\* and removes none.
\* ------------------------------------------------------------------------
C10_TableOnlyGrows ==
    /\ [](DOMAIN transactions = ValidIds)
    /\ [](Observable => current_transaction_id = Len(accepted))
    /\ [][/\ DOMAIN transactions \subseteq DOMAIN transactions'
          /\ current_transaction_id' # current_transaction_id
                => /\ current_transaction_id' = current_transaction_id + 1
                   /\ DOMAIN transactions' =
                         DOMAIN transactions \cup {current_transaction_id + 1}
                   /\ \E t \in Threads : lock = t /\ result[t] = 1
          /\ \A t \in Threads :
                (Returns(t) /\ result[t] = 1)
                    => current_transaction_id = Len(accepted)]_vars

\* two submissions were accepted and the table holds rounds 0, 1 and 2
C10_Witness ==
    /\ Observable
    /\ Len(accepted) = 2
    /\ current_transaction_id = 2
    /\ DOMAIN transactions = {0, 1, 2}
    /\ resp.op = "submitChallenge"
    /\ resp.value = 1

\* ------------------------------------------------------------------------
\* C11: every round's challenge lies in [1, 20] and never changes: in every
\* state getChallenge and getSolution report the stored challenge of each
\* existing round, and no step changes what they report for it, before or
\* after the round is resolved.
\* ------------------------------------------------------------------------
C11_ChallengeFixedInRange ==
    /\ [](\A tx \in DOMAIN transactions :
            /\ GetChallengeValue(tx) \in MinChallenge..MaxChallenge
            /\ GetSolutionValue(tx)[3] = GetChallengeValue(tx))
    /\ [][\A tx \in DOMAIN transactions :
            /\ GetChallengeValue(tx)' = GetChallengeValue(tx)
            /\ GetSolutionValue(tx)[3]' = GetSolutionValue(tx)[3]]_vars

\* getSolution reported the challenge of a resolved round, two rounds later
C11_Witness ==
    /\ Observable
    /\ current_transaction_id = 2
    /\ resp.op = "getSolution"
    /\ resp.transactionID = 0
    /\ resp.value = 0
    /\ resp.challenge = MinChallenge
    /\ transactions[2].challenge = MaxChallenge

\* ------------------------------------------------------------------------
\* C20: in every reachable state the stored solution of every resolved
\* round is a non-empty string whose digest has `challenge` leading zeros
\* for that round's challenge, and solution and winner are the candidate
\* and the clientID of an Accepted submission for that round (the last one).
\* ------------------------------------------------------------------------
LastAccepted(tx) ==
    accepted[CHOOSE i \in AcceptedFor(tx) : \A j \in AcceptedFor(tx) : j <= i]

C20_StoredSolutionVerifies ==
    \A tx \in DOMAIN transactions :
        transactions[tx].winner # NoWinner
            => /\ transactions[tx].solution # None
               /\ transactions[tx].solution[1] # ""
               /\ Verifies(transactions[tx].challenge, transactions[tx].solution[1])
               /\ AcceptedFor(tx) # {}
               /\ transactions[tx].solution[1] = LastAccepted(tx).solution
               /\ transactions[tx].winner = LastAccepted(tx).clientID

\* a round resolved by client 1000 with the candidate "i"
C20_Witness ==
    /\ Observable
    /\ current_transaction_id >= 1
    /\ transactions[0].winner = 1000
    /\ transactions[0].solution = Some("i")
    /\ resp.op = "getSolution"
    /\ resp.transactionID = 0
    /\ resp.solution = "i"

\* ------------------------------------------------------------------------
\* Vocabulary of the search properties
\* ------------------------------------------------------------------------

\* local_mine returns from a search in this step
MineReturns == mine_pc = "l83" /\ mine_pc' = "idle"

\* worker w is running mine_worker
Running(w) == wpc[w] \notin {"unstarted", "done"}

\* some nonce the workers can draw has the prefix of this search
Solvable == \E n \in MineNonces : Verifies(mine_challenge, n)

\* the phase of the search instance
Phase ==
    CASE mine_pc = "idle" -> "Done"
      [] mine_pc \in {"start", "wait"} /\ ~solution_found_event -> "Running"
      [] mine_pc \in {"start", "wait"} /\ solution_found_event -> "Found"
      [] mine_pc \in {"join", "l83"} -> "Draining"

PhaseAfter(ph) ==
    CASE ph = "Done" -> {"Done", "Running"}
      [] ph = "Running" -> {"Running", "Found"}
      [] ph = "Found" -> {"Found", "Draining"}
      [] ph = "Draining" -> {"Draining", "Done"}

\* ------------------------------------------------------------------------
\* C12: over successive local_mine calls with valid difficulties, the value
\* each call returns is not None, is the one value a worker of that same
\* call stored, and its digest starts with `difficulty` zeros; a value left
\* from an earlier search is never returned.
\* ------------------------------------------------------------------------
C12_ReturnedValueIsOwnFind ==
    [][MineReturns =>
          /\ mine_ret' # None
          /\ Len(writes) = 1
          /\ mine_ret' = Some(writes[1].nonce)
          /\ mine_ret' \in MineOutcomes(mine_challenge)
          /\ mine_ret'[1] \in MineNonces
          /\ Verifies(mine_challenge, mine_ret'[1])]_vars

\* the second search is about to return a two-zero nonce after the first
\* returned the one-zero nonce
C12_Witness ==
    /\ mine_pc = "l83"
    /\ mine_challenge = MinChallenge + 1
    /\ mine_ret = Some("HddmQAtKCsXRpJG2")
    /\ solution_storage = Some("0sJxTmppj2Juy9Fo")

\* ------------------------------------------------------------------------
\* C13: local_mine returns only once the event is set and every worker
\* thread it started has ended; whenever it is not inside a search no
\* worker is running; the phases follow Running, Found, Draining, Done.
\* ------------------------------------------------------------------------
C13_ReturnsAfterAllWorkersEnd ==
    /\ [](mine_pc \in {"idle", "l83"} => \A w \in Workers : ~Running(w))
    /\ [][/\ MineReturns => /\ solution_found_event
                            /\ started = num_threads
                            /\ \A w \in Workers : wpc[w] = "done"
          /\ Phase' \in PhaseAfter(Phase)]_vars

\* a search has returned and all its threads have ended
C13_Witness ==
    /\ mine_pc = "idle"
    /\ ValidDifficulty(mine_challenge)
    /\ mine_ret # None
    /\ \A w \in Workers : wpc[w] = "done"

\* ------------------------------------------------------------------------
\* C14: under fair scheduling, and with draws that eventually hit a nonce
\* with the prefix, a local_mine call with a valid difficulty ends: the
\* event is set, every worker has ended and the call has returned.
\* ------------------------------------------------------------------------
C14_SearchTerminates ==
    (mine_pc # "idle" /\ Solvable)
        ~> (/\ mine_pc = "idle"
            /\ solution_found_event
            /\ \A w \in Workers : wpc[w] = "done")

\* a search for two zeros has ended
C14_Witness ==
    /\ mine_pc = "idle"
    /\ mine_challenge = MinChallenge + 1
    /\ solution_found_event
    /\ mine_ret = Some("0sJxTmppj2Juy9Fo")
    /\ \A w \in Workers : wpc[w] = "done"

\* ------------------------------------------------------------------------
\* C15: local_mine called with a difficulty outside [1, 20] returns None,
\* starts no thread and leaves the event and the stored solution as they
\* were.
\* ------------------------------------------------------------------------
C15_InvalidDifficultyFailsFast ==
    [][(mine_pc = "idle" /\ mine_challenge' \notin MinChallenge..MaxChallenge)
          => /\ mine_ret' = None
             /\ mine_pc' = "idle"
             /\ UNCHANGED <<solution_found_event, solution_storage, solution_lock,
                            wpc, started>>]_vars

\* a call with difficulty 21 returned None after a search, whose event and
\* stored solution are still there
C15_Witness ==
    /\ mine_pc = "idle"
    /\ mine_challenge = MaxChallenge + 1
    /\ mine_ret = None
    /\ solution_found_event
    /\ solution_storage # None

\* ------------------------------------------------------------------------
\* C17: within one search the storage is written exactly once: the writer
\* is the first worker to take solution_lock and it writes its own nonce
\* with the event not yet set; a worker that finds the event set inside the
\* lock leaves the storage and ends.
\* ------------------------------------------------------------------------
C17_ClaimSlotWrittenOnce ==
    /\ [](Len(writes) <= 1)
    /\ [](solution_found_event /\ mine_pc # "idle" => Len(writes) = 1)
    /\ [][/\ (mine_pc # "idle" /\ solution_storage' # solution_storage)
              => \E w \in Workers :
                    /\ wpc[w] = "l46"
                    /\ w = first_locker
                    /\ solution_lock = w
                    /\ ~solution_found_event
                    /\ solution_storage = None
                    /\ solution_storage' = Some(nonce[w])
          /\ \A w \in Workers :
                (wpc[w] = "l45" /\ solution_found_event /\ wpc'[w] # wpc[w])
                    => (wpc'[w] = "l49" /\ UNCHANGED solution_storage)
          /\ \A w \in Workers :
                (wpc[w] = "l49" /\ wpc'[w] # wpc[w])
                    => (wpc'[w] = "done" /\ UNCHANGED solution_storage)]_vars

\* a second finder, with another nonce, found the event set inside the lock
C17_Witness ==
    /\ solution_found_event
    /\ solution_storage = Some("HddmQAtKCsXRpJG2")
    /\ \E w \in Workers :
          /\ w # first_locker
          /\ wpc[w] = "l49"
          /\ solution_lock = w
          /\ nonce[w] = "0sJxTmppj2Juy9Fo"

\* ------------------------------------------------------------------------
\* C18: cancellation is cooperative and bounded: once the event is set a
\* worker makes at most one more attempt (the one of the turn of the loop
\* it was in), a turn of the loop never begins with the event set, a worker
\* that tests the event at the top of the loop and finds it set ends, and a
\* worker ends only by its own return (from line 32 or line 49).
\* ------------------------------------------------------------------------
C18_CooperativeCancellation ==
    /\ [](\A w \in Workers : late[w] <= 1)
    /\ [][\A w \in Workers :
            /\ (wpc[w] = "l32" /\ solution_found_event /\ wpc'[w] # wpc[w])
                  => wpc'[w] = "done"
            /\ (wpc[w] # "l35" /\ wpc'[w] = "l35") => ~solution_found_event
            /\ (Running(w) /\ ~Running(w)')
                  => (wpc[w] \in {"l32", "l49"} /\ wpc'[w] = "done")]_vars

\* a worker finished the attempt it was in after the event was set, and ended
C18_Witness ==
    \E w \in Workers :
        /\ late[w] = 1
        /\ wpc[w] = "done"
        /\ w # first_locker

\* ------------------------------------------------------------------------
\* C19: in do_mine, whatever the other clients do meanwhile, getChallenge
\* never answers -1 and the submission is answered 1 or 2, never 0 and never
\* -1: the round read in step 1 stays in the table with the challenge read
\* in step 2, and the nonce local_mine returned passes the server's
\* _check_solution for it.
\* ------------------------------------------------------------------------
C19_MinerAcceptedOrLate ==
    /\ d_challenge # Some(-1)
    /\ d_result \in {None, Some(1), Some(2)}
    /\ d_challenge # None
          => /\ Exists(d_tx_id[1])
             /\ transactions[d_tx_id[1]].challenge = d_challenge[1]
    /\ d_pc \in {"step5", "step6"} => CheckSolution(d_challenge[1], d_solution[1])
    /\ d_pc = "step6" => result[d_thread] \in {1, 2}

\* the miner was answered 2: another client had solved the round it mined
C19_Witness ==
    /\ d_pc = "return"
    /\ d_result = Some(2)
    /\ d_challenge = Some(MinChallenge)
    /\ d_solution = Some("0sJxTmppj2Juy9Fo")
    /\ transactions[d_tx_id[1]].winner = 1000

====
